---- MODULE Spec2Model ----
\* Control-flow model of the agent graphs of the Agent Innovator Lab notebooks:
\* Self-RAG (binary graders), Self-RAG with the Azure AI Evaluation SDK,
\* Corrective RAG, Adaptive RAG, the Multi-Agent Supervisor, Plan-and-Execute
\* and the CopyWriter/ArtDirector group chat.  One run of one graph per
\* behaviour; the LLM calls, the retriever and the web search are the
\* environment and answer nondeterministically.
EXTENDS Integers, Sequences, FiniteSets, TLC

\* ------------------------------------------------------------------ bounds
NumDocs == 1          \* distinct documents the retriever can return
MaxDocs == 2          \* length of a retrieval result (top-k)
NumQuestions == 2     \* distinct question texts (original and rewritten)
NumTasks == 2         \* distinct plan steps the planner can write
MaxPlanLen == 2       \* length of a plan
MaxPastSteps == 3     \* executed steps kept in past_steps

\* --------------------------------------------------------- program constants
RECURSION_LIMIT == 10
GROUNDEDNESS_THRESHOLD == 4
RELEVANCE_THRESHOLD == 4
MAX_RESULTS == 3
PLAN_RECURSION_LIMIT == 50
MAXIMUM_ITERATIONS == 10

START == "__start__"
END == "__end__"

Graphs == {"self_rag", "self_rag_sdk", "crag", "adaptive_rag",
           "supervisor", "plan_and_execute", "group_chat"}
RagGraphs == {"self_rag", "self_rag_sdk", "crag", "adaptive_rag"}

Nodes == {"retrieve", "grade_documents", "generate", "rewrite_query",
          "web_search_node", "web_search",
          "Supervisor", "Researcher", "Coder",
          "planner", "execute", "replan", "final_report"}

Docs == 1..NumDocs
\* a Document built from web search results
WebDoc == 0
\* how Adaptive RAG's notebook classifies questions
Complexities == {"very simple", "simple", "complex"}
Questions == 1..NumQuestions
\* binary_score is a free string field: "yes", "no", or anything else the
\* LLM answers; every grader compares it with "yes" only.
BinaryScores == {"yes", "no", "unsure"}
\* GroundednessEvaluator / RelevanceEvaluator scores, "1-5; higher is better"
Scores == 1..5

VARIABLES
    graph,        \* which notebook's compiled graph `app` is running
    node,         \* the node the engine runs next (START before the first step)
    last,         \* the node that ran in the previous step
    status,       \* "running" | "done" | "GraphRecursionError" | "IndexError"
    cell,         \* the notebook cell of the run: "running" | "completed" |
                  \* "printed" (the except clause printed the error) |
                  \* "raised" (the exception left the cell)
    step,         \* node executions so far in this run
    executed,     \* per node: how often it has run
    related,      \* input: is the question related to the indexed documents
    question,     \* GraphState.question
    documents,    \* GraphState.documents
    generation,   \* GraphState.generation (0: none yet, n: the n-th answer)
    web_search,   \* CRAG GraphState.web_search ("": not set yet)
    complexity,   \* input: the complexity of the question (Adaptive RAG)
    grades,       \* binary_score of each document at the last grade_documents
    graded,       \* the grader calls of the last grade_documents that
                  \* answered "yes": [question, document] as passed in
    checks,       \* grader calls made by the last conditional edge, in order
    messages,     \* AgentState.messages: the names of the senders, in order
    next,         \* AgentState.next ("": not set yet)
    plan,         \* PlanExecute.plan
    past_steps,   \* PlanExecute.past_steps: the tasks executed, in order
    response,     \* PlanExecute.response ("": absent or empty)
    history,      \* the group chat's messages: [name, content]
    is_complete,  \* AgentGroupChat.is_complete
    iterations    \* turns taken by AgentGroupChat.invoke

ragVars == <<related, question, documents, generation, web_search, complexity,
            grades, graded, checks>>
engineVars == <<graph, node, last, status, cell, step, executed>>
supVars == <<messages, next>>
planVars == <<plan, past_steps, response>>
chatVars == <<history, is_complete, iterations>>
dataVars == <<ragVars, supVars, planVars, chatVars>>
vars == <<engineVars, dataVars>>

\* ------------------------------------------------------------- environment
\* pdf_retriever.invoke(question): a ranked list of at most MaxDocs documents
RetrieverResults == UNION {[1..n -> Docs] : n \in 0..MaxDocs}

\* what the document grader can answer for this question: for a question
\* unrelated to the indexed documents no document is graded "yes"
retrieval_grader == IF related THEN BinaryScores ELSE BinaryScores \ {"yes"}

\* ---------------------------------------------------------- pure functions
\* the loop of grade_documents: keep the documents graded "yes", in order
RECURSIVE grade_loop(_, _, _)
grade_loop(docs, scores, i) ==
    IF i > Len(docs) THEN <<>>
    ELSE (IF scores[i] = "yes" THEN <<docs[i]>> ELSE <<>>)
         \o grade_loop(docs, scores, i + 1)

decide_to_generate_always(filtered_documents) == "generate"

decide_to_generate(filtered_documents) ==
    IF filtered_documents = <<>> THEN "rewrite_query" ELSE "generate"

decide_to_generate_edges(label) ==
    CASE label = "rewrite_query" -> "rewrite_query"
      [] label = "generate" -> "generate"

\* Self-RAG, binary graders: the groundedness grader is called, then (only if
\* it answers "yes") the answer grader.  `calls` lists the grader calls made.
grade_generation_v_documents_and_question(grounded, answers) ==
    IF grounded = "yes"
    THEN [calls |-> <<<<"groundedness", grounded>>, <<"answer", answers>>>>,
          route |-> IF answers = "yes" THEN "relevant" ELSE "not relevant"]
    ELSE [calls |-> <<<<"groundedness", grounded>>>>, route |-> "hallucination"]

\* variant: the groundedness threshold one too low
grade_generation_sdk_threshold_3(groundedness, relevance) ==
    IF groundedness >= 3
    THEN [calls |-> <<<<"groundedness", groundedness>>, <<"relevance", relevance>>>>,
          route |-> IF relevance >= RELEVANCE_THRESHOLD
                    THEN "relevant" ELSE "not relevant"]
    ELSE [calls |-> <<<<"groundedness", groundedness>>>>, route |-> "hallucination"]

\* Self-RAG with the evaluation SDK: scores against the threshold
grade_generation_v_documents_and_question_sdk(groundedness, relevance) ==
    IF groundedness >= GROUNDEDNESS_THRESHOLD
    THEN [calls |-> <<<<"groundedness", groundedness>>, <<"relevance", relevance>>>>,
          route |-> IF relevance >= RELEVANCE_THRESHOLD
                    THEN "relevant" ELSE "not relevant"]
    ELSE [calls |-> <<<<"groundedness", groundedness>>>>, route |-> "hallucination"]

\* Adaptive RAG: same shape as the binary Self-RAG check
hallucination_check(grounded, answers) ==
    IF grounded = "yes"
    THEN [calls |-> <<<<"groundedness", grounded>>, <<"answer", answers>>>>,
          route |-> IF answers = "yes" THEN "relevant" ELSE "not relevant"]
    ELSE [calls |-> <<<<"groundedness", grounded>>>>, route |-> "hallucination"]

\* CRAG grade_documents: web search if no document was graded "yes"
crag_web_search(scores) ==
    IF Cardinality({i \in DOMAIN scores : scores[i] = "yes"}) = 0 THEN "Yes" ELSE "No"

decide_to_generate_crag(ws) ==
    IF ws = "Yes" THEN "rewrite_query" ELSE "generate"

\* Adaptive RAG: the router's structured output is "web_search" or "vectorstore"
Datasources == {"vectorstore", "web_search"}

route_question(datasource) ==
    CASE datasource = "web_search" -> "web_search"
      [] datasource = "vectorstore" -> "vectorstore"

route_question_edges(label) ==
    CASE label = "web_search" -> "web_search"
      [] label = "vectorstore" -> "retrieve"

adaptive_generate_edges(label) ==
    CASE label = "hallucination" -> "generate"
      [] label = "relevant" -> END
      [] label = "not relevant" -> "rewrite_query"

\* variant: an answer that does not address the question ends the run
generate_edges_not_relevant_ends(label) ==
    CASE label = "hallucination" -> "generate"
      [] label = "relevant" -> END
      [] label = "not relevant" -> END

generate_edges(label) ==
    CASE label = "hallucination" -> "generate"
      [] label = "relevant" -> END
      [] label = "not relevant" -> "rewrite_query"

\* -------------------------------------------------- Multi-Agent Supervisor
members == <<"Researcher", "Coder">>
options_for_next == <<"FINISH">> \o members

get_next(state_next) == state_next

\* variant: every member key maps to the last member (a late-bound loop variable)
conditional_map_last_member(k) ==
    IF k = "FINISH" THEN END ELSE members[Len(members)]

\* variant: FINISH is not mapped to END but handed to the first member
conditional_map_finish_to_member(k) ==
    IF k = "FINISH" THEN members[1] ELSE k

conditional_map(k) ==
    IF k = "FINISH" THEN END
    ELSE CASE k \in {members[i] : i \in DOMAIN members} -> k

\* ------------------------------------------------------- Plan-and-Execute
Tasks == 1..NumTasks
\* Plan.steps: List[str], any length from 0
Plans == UNION {[1..n -> Tasks] : n \in 0..MaxPlanLen}
\* Response.response: str, which can be empty
ResponseTexts == {"", "answer"}
\* Act.action: Union[Response, Plan]
Acts == [type : {"Response"}, response : ResponseTexts]
        \cup [type : {"Plan"}, steps : Plans]

\* replan_step: the state update it returns
replan_step(output) ==
    IF output.type = "Response"
    THEN [key |-> "response", value |-> output.response]
    ELSE IF Len(output.steps) = 0
         THEN [key |-> "response", value |-> "No more steps needed."]
         ELSE [key |-> "plan", value |-> output.steps]

should_end(state_response) ==
    IF state_response # "" THEN "final_report" ELSE "execute"

\* variant: continuing goes back to the planner
should_end_edges_to_planner(label) ==
    CASE label = "execute" -> "planner"
      [] label = "final_report" -> "final_report"

should_end_edges(label) ==
    CASE label = "execute" -> "execute"
      [] label = "final_report" -> "final_report"

\* -------------------------------------------- CopyWriter/ArtDirector chat
REVIEWER_NAME == "ArtDirector"
COPYWRITER_NAME == "CopyWriter"
\* AgentGroupChat(agents=[agent_writer, agent_reviewer], ...)
chat_agents == <<COPYWRITER_NAME, REVIEWER_NAME>>
\* ApprovalTerminationStrategy(agents=[agent_reviewer], ...)
strategy_agents == {REVIEWER_NAME}

\* strings are sequences of characters
APPROVED == <<"a", "p", "p", "r", "o", "v", "e", "d">>
TASK == <<"s", "l", "o", "g", "a", "n">>
Contents == {
    <<"a", "p", "p", "r", "o", "v", "e", "d">>,
    <<"I", "s", " ", "A", "p", "p", "r", "o", "v", "e", "d", ".">>,
    <<"a", "p", "p", "r", "o", "v", "e", "?">> }

\* str.lower(), character by character
lower_char(c) ==
    CASE c = "A" -> "a" [] c = "I" -> "i"
      [] OTHER -> c

lower(s) == [i \in 1..Len(s) |-> lower_char(s[i])]

\* Python's `sub in s` on strings
str_in(sub, s) ==
    \E i \in 1..(Len(s) - Len(sub) + 1) : SubSeq(s, i, i + Len(sub) - 1) = sub

\* variant: the comparison without .lower()
should_agent_terminate_case_sensitive(agent, hist) ==
    str_in(APPROVED, hist[Len(hist)].content)

should_agent_terminate(agent, hist) ==
    str_in(APPROVED, lower(hist[Len(hist)].content))

\* TerminationStrategy.should_terminate: only the strategy's agents are asked
should_terminate(agent, hist) ==
    IF agent \notin strategy_agents THEN FALSE
    ELSE should_agent_terminate(agent, hist)

\* ------------------------------------------------------------------ engine
recursion_limit ==
    IF graph = "plan_and_execute" THEN PLAN_RECURSION_LIMIT ELSE RECURSION_LIMIT

CanRun(n) == status = "running" /\ node = n /\ step < recursion_limit

StatusAt(n) == IF n = END THEN "done" ELSE "running"

\* one engine step: node n has run and the edge leads to `to`
Ran(n, to) ==
    /\ node' = to
    /\ last' = n
    /\ status' = StatusAt(to)
    /\ step' = step + 1
    /\ executed' = [executed EXCEPT ![n] = @ + 1]
    /\ graph' = graph
    /\ cell' = IF to = END THEN "completed" ELSE cell

Init ==
    /\ graph \in Graphs
    /\ node = START
    /\ last = START
    /\ status = "running"
    /\ cell = "running"
    /\ step = 0
    /\ executed = [n \in Nodes |-> 0]
    /\ related \in (IF graph \in RagGraphs THEN BOOLEAN ELSE {TRUE})
    /\ question = 1
    /\ documents = <<>>
    /\ generation = 0
    /\ web_search = ""
    /\ complexity \in (IF graph = "adaptive_rag" THEN Complexities ELSE {"simple"})
    /\ grades = <<>>
    /\ graded = {}
    /\ checks = <<>>
    /\ messages = <<"user">>
    /\ next = ""
    /\ plan = <<>>
    /\ past_steps = <<>>
    /\ response = ""
    /\ history = <<[name |-> "user", content |-> TASK]>>
    /\ is_complete = FALSE
    /\ iterations = 0

\* workflow.add_edge(START, "retrieve")
SelfRagStart ==
    /\ graph \in {"self_rag", "self_rag_sdk"}
    /\ status = "running" /\ node = START
    /\ node' = "retrieve"
    /\ UNCHANGED <<graph, last, status, cell, step, executed, dataVars>>

Retrieve ==
    /\ graph \in RagGraphs
    /\ CanRun("retrieve")
    /\ documents' \in RetrieverResults
    /\ Ran("retrieve", "grade_documents")
    /\ UNCHANGED <<related, question, generation, web_search, complexity, grades, graded, checks,
                 supVars, planVars, chatVars>>

GradeDocuments ==
    /\ graph \in {"self_rag", "self_rag_sdk", "adaptive_rag"}
    /\ CanRun("grade_documents")
    /\ grades' \in [1..Len(documents) -> retrieval_grader]
    /\ graded' = {[question |-> question, document |-> documents[i]] :
                     i \in {j \in 1..Len(documents) : grades'[j] = "yes"}}
    /\ documents' = grade_loop(documents, grades', 1)
    /\ Ran("grade_documents",
           decide_to_generate_edges(decide_to_generate(documents')))
    /\ UNCHANGED <<related, question, generation, web_search, complexity, checks,
                 supVars, planVars, chatVars>>

RewriteQuery ==
    /\ graph \in {"self_rag", "self_rag_sdk", "adaptive_rag"}
    /\ CanRun("rewrite_query")
    /\ question' \in Questions
    /\ Ran("rewrite_query", "retrieve")
    /\ UNCHANGED <<related, documents, generation, web_search, complexity, grades, graded, checks,
                 supVars, planVars, chatVars>>

SelfRagGenerate ==
    /\ graph = "self_rag"
    /\ CanRun("generate")
    /\ generation' = generation + 1
    /\ \E grounded \in BinaryScores, answers \in BinaryScores :
         LET g == grade_generation_v_documents_and_question(grounded, answers)
         IN  /\ checks' = g.calls
             /\ Ran("generate", generate_edges(g.route))
    /\ UNCHANGED <<related, question, documents, web_search, complexity, grades, graded,
                 supVars, planVars, chatVars>>

SelfRagSdkGenerate ==
    /\ graph = "self_rag_sdk"
    /\ CanRun("generate")
    /\ generation' = generation + 1
    /\ \E groundedness \in Scores, relevance \in Scores :
         LET g == grade_generation_v_documents_and_question_sdk(groundedness, relevance)
         IN  /\ checks' = g.calls
             /\ Ran("generate", generate_edges(g.route))
    /\ UNCHANGED <<related, question, documents, web_search, complexity, grades, graded,
                 supVars, planVars, chatVars>>

\* ---------------------------------------------------------- Corrective RAG
CragStart ==
    /\ graph = "crag"
    /\ status = "running" /\ node = START
    /\ node' = "retrieve"
    /\ UNCHANGED <<graph, last, status, cell, step, executed, dataVars>>

CragGradeDocuments ==
    /\ graph = "crag"
    /\ CanRun("grade_documents")
    /\ grades' \in [1..Len(documents) -> retrieval_grader]
    /\ graded' = {[question |-> question, document |-> documents[i]] :
                     i \in {j \in 1..Len(documents) : grades'[j] = "yes"}}
    /\ documents' = grade_loop(documents, grades', 1)
    /\ web_search' = crag_web_search(grades')
    /\ Ran("grade_documents",
           decide_to_generate_edges(decide_to_generate_crag(web_search')))
    /\ UNCHANGED <<related, question, generation, complexity, checks,
                 supVars, planVars, chatVars>>

\* variant: the rewritten query goes back to the retriever, as in Self-RAG
CragRewriteQuery_to_retrieve ==
    /\ graph = "crag"
    /\ CanRun("rewrite_query")
    /\ question' \in Questions
    /\ Ran("rewrite_query", "retrieve")
    /\ UNCHANGED <<related, documents, generation, web_search, complexity, grades, graded, checks,
                 supVars, planVars, chatVars>>

CragRewriteQuery ==
    /\ graph = "crag"
    /\ CanRun("rewrite_query")
    /\ question' \in Questions
    /\ Ran("rewrite_query", "web_search_node")
    /\ UNCHANGED <<related, documents, generation, web_search, complexity, grades, graded, checks,
                 supVars, planVars, chatVars>>

CragWebSearch ==
    /\ graph = "crag"
    /\ CanRun("web_search_node")
    /\ documents' = Append(documents, WebDoc)
    /\ Ran("web_search_node", "generate")
    /\ UNCHANGED <<related, question, generation, web_search, complexity, grades, graded, checks,
                 supVars, planVars, chatVars>>

CragGenerate ==
    /\ graph = "crag"
    /\ CanRun("generate")
    /\ generation' = generation + 1
    /\ Ran("generate", END)
    /\ UNCHANGED <<related, question, documents, web_search, complexity, grades, graded, checks,
                 supVars, planVars, chatVars>>

\* ------------------------------------------------------------ Adaptive RAG
AdaptiveStart ==
    /\ graph = "adaptive_rag"
    /\ status = "running" /\ node = START
    /\ \E datasource \in Datasources :
         node' = route_question_edges(route_question(datasource))
    /\ UNCHANGED <<graph, last, status, cell, step, executed, dataVars>>

AdaptiveWebSearch ==
    /\ graph = "adaptive_rag"
    /\ CanRun("web_search")
    /\ \E n \in 0..MAX_RESULTS : documents' = [i \in 1..n |-> WebDoc]
    /\ Ran("web_search", "generate")
    /\ UNCHANGED <<related, question, generation, web_search, complexity, grades, graded, checks,
                 supVars, planVars, chatVars>>

AdaptiveGenerate ==
    /\ graph = "adaptive_rag"
    /\ CanRun("generate")
    /\ generation' = generation + 1
    /\ \E grounded \in BinaryScores, answers \in BinaryScores :
         LET g == hallucination_check(grounded, answers)
         IN  /\ checks' = g.calls
             /\ Ran("generate", adaptive_generate_edges(g.route))
    /\ UNCHANGED <<related, question, documents, web_search, complexity, grades, graded,
                 supVars, planVars, chatVars>>

\* -------------------------------------------------- Multi-Agent Supervisor
SupervisorStart ==
    /\ graph = "supervisor"
    /\ status = "running" /\ node = START
    /\ node' = "Supervisor"
    /\ UNCHANGED <<graph, last, status, cell, step, executed, dataVars>>

\* supervisor_agent: the LLM picks one of options_for_next
supervisor_agent ==
    /\ graph = "supervisor"
    /\ CanRun("Supervisor")
    /\ \E i \in DOMAIN options_for_next : next' = options_for_next[i]
    /\ Ran("Supervisor", conditional_map(get_next(next')))
    /\ UNCHANGED <<messages, ragVars, planVars, chatVars>>

agent_node(name) ==
    /\ graph = "supervisor"
    /\ CanRun(name)
    /\ messages' = Append(messages, name)
    /\ next' = "Supervisor"
    /\ Ran(name, "Supervisor")
    /\ UNCHANGED <<ragVars, planVars, chatVars>>

research_node == agent_node("Researcher")

coder_node == agent_node("Coder")

\* ------------------------------------------------------- Plan-and-Execute
PlanStart ==
    /\ graph = "plan_and_execute"
    /\ status = "running" /\ node = START
    /\ node' = "planner"
    /\ UNCHANGED <<graph, last, status, cell, step, executed, dataVars>>

plan_step ==
    /\ graph = "plan_and_execute"
    /\ CanRun("planner")
    /\ plan' \in Plans
    /\ Ran("planner", "execute")
    /\ UNCHANGED <<past_steps, response, ragVars, supVars, chatVars>>

\* task = plan[0] raises IndexError on an empty plan
execute_step ==
    /\ graph = "plan_and_execute"
    /\ CanRun("execute")
    /\ Len(past_steps) < MaxPastSteps
    /\ IF plan = <<>>
       THEN /\ status' = "IndexError"
            /\ cell' = "raised"
            /\ UNCHANGED <<graph, node, last, step, executed, past_steps>>
       ELSE /\ past_steps' = Append(past_steps, plan[1])
            /\ Ran("execute", "replan")
    /\ UNCHANGED <<plan, response, ragVars, supVars, chatVars>>

replan_node ==
    /\ graph = "plan_and_execute"
    /\ CanRun("replan")
    /\ \E output \in Acts :
         LET update == replan_step(output)
         IN  /\ response' = IF update.key = "response" THEN update.value ELSE response
             /\ plan' = IF update.key = "plan" THEN update.value ELSE plan
             /\ Ran("replan", should_end_edges(should_end(response')))
    /\ UNCHANGED <<past_steps, ragVars, supVars, chatVars>>

generate_final_report ==
    /\ graph = "plan_and_execute"
    /\ CanRun("final_report")
    /\ response' = "report"
    /\ Ran("final_report", END)
    /\ UNCHANGED <<plan, past_steps, ragVars, supVars, chatVars>>

\* -------------------------------------------- CopyWriter/ArtDirector chat
\* one turn of AgentGroupChat.invoke: the agents speak in turn; after each
\* message the termination strategy decides whether the chat is complete
chat_invoke ==
    /\ graph = "group_chat"
    /\ status = "running"
    /\ ~is_complete
    /\ iterations < MAXIMUM_ITERATIONS
    /\ LET selected == chat_agents[(iterations % Len(chat_agents)) + 1]
       IN  /\ \E content \in Contents :
                history' = Append(history, [name |-> selected, content |-> content])
           /\ is_complete' = should_terminate(selected, history')
           /\ last' = selected
    /\ iterations' = iterations + 1
    /\ status' = IF is_complete' \/ iterations' = MAXIMUM_ITERATIONS
                  THEN "done" ELSE "running"
    /\ cell' = IF status' = "done" THEN "completed" ELSE cell
    /\ UNCHANGED <<graph, node, step, executed, ragVars, supVars, planVars>>

\* the Self-RAG cells wrap stream_graph in try / except GraphRecursionError;
\* the cells of the other graphs call stream_graph bare
try_except_none(g) == FALSE

try_except(g) == g \in {"self_rag", "self_rag_sdk"}

\* the engine stops a run that needs more than recursion_limit steps; the
\* cell's except clause, where there is one, prints the error
RecursionError ==
    /\ status = "running"
    /\ node \notin {START, END}
    /\ step >= recursion_limit
    /\ status' = "GraphRecursionError"
    /\ cell' = IF try_except(graph) THEN "printed" ELSE "raised"
    /\ UNCHANGED <<graph, node, last, step, executed, dataVars>>

Next ==
    \/ SelfRagStart
    \/ Retrieve
    \/ GradeDocuments
    \/ RewriteQuery
    \/ SelfRagGenerate
    \/ SelfRagSdkGenerate
    \/ CragStart
    \/ CragGradeDocuments
    \/ CragRewriteQuery
    \/ CragWebSearch
    \/ CragGenerate
    \/ AdaptiveStart
    \/ AdaptiveWebSearch
    \/ AdaptiveGenerate
    \/ SupervisorStart
    \/ supervisor_agent
    \/ research_node
    \/ coder_node
    \/ PlanStart
    \/ plan_step
    \/ execute_step
    \/ replan_node
    \/ generate_final_report
    \/ chat_invoke
    \/ RecursionError

Spec == Init /\ [][Next]_vars

\* A CRAG run on its own, with the engine's scheduling: a scheduled node is
\* run, and every LLM call, retrieval and search returns.
CragInit == Init /\ graph = "crag"

CragNext ==
    \/ CragStart
    \/ Retrieve
    \/ CragGradeDocuments
    \/ CragRewriteQuery
    \/ CragWebSearch
    \/ CragGenerate

CragFairSpec == CragInit /\ [][CragNext]_vars /\ WF_vars(CragNext)

\* ================================================================== claims
Workers == {members[i] : i \in DOMAIN members}
SelfRagLike == {"self_rag", "self_rag_sdk", "adaptive_rag"}

\* C1: in the Self-RAG graph on the evaluation SDK, when the groundedness
\* score of the latest generation is below 4, the node scheduled next, and
\* the next node that runs, is generate.
C1_RegenerateBelow4 ==
    [][(graph = "self_rag_sdk" /\ last = "generate" /\ checks[1][2] < 4)
         => (node = "generate" /\ (step' > step => last' = "generate"))]_vars

C1_Witness ==
    /\ graph = "self_rag_sdk" /\ last = "generate"
    /\ checks[1][2] = 3
    /\ executed["generate"] >= 2

\* C2: in both Self-RAG graphs and in Adaptive RAG the run is at END only
\* directly after generate, with the groundedness grader called first and
\* passing and the answer/relevance grader called second and passing.
C2_Passes(value) ==
    IF graph = "self_rag_sdk" THEN value >= 4 ELSE value = "yes"

C2_EndOnlyAfterGroundedAndRelevant ==
    (graph \in SelfRagLike /\ node = END) =>
        /\ last = "generate"
        /\ Len(checks) = 2
        /\ checks[1][1] = "groundedness" /\ C2_Passes(checks[1][2])
        /\ checks[2][1] \in {"answer", "relevance"} /\ C2_Passes(checks[2][2])

C2_Witness ==
    /\ graph = "adaptive_rag" /\ node = END /\ last = "generate"
    /\ executed["rewrite_query"] >= 1

\* C3 (as claimed): for a question unrelated to the indexed documents the
\* Self-RAG run never reaches END and keeps generating: when the recursion
\* limit stops it, generate has run again and again.
C3_KeepsGenerating ==
    (graph = "self_rag" /\ ~related) =>
        /\ node # END
        /\ (status = "GraphRecursionError" => executed["generate"] >= 2)

\* C4: a worker runs only as the step directly after a Supervisor step that
\* named exactly that worker in `next`, and the step directly after a worker
\* step is the Supervisor.
C4_WorkerOnlyWhenNamed ==
    [][(graph = "supervisor" /\ step' > step) =>
         /\ (last' \in Workers => (last = "Supervisor" /\ next = last'))
         /\ (last \in Workers => last' = "Supervisor")]_vars

C4_Witness ==
    /\ graph = "supervisor" /\ last = "Supervisor"
    /\ executed["Researcher"] >= 1 /\ executed["Coder"] >= 1

\* C5: the supervisor graph is at END only directly after a Supervisor step
\* that decided FINISH, and once FINISH is decided the run is over: no
\* worker runs after it.
C5_EndOnlyOnFinish ==
    graph = "supervisor" =>
        /\ (node = END => (last = "Supervisor" /\ next = "FINISH"))
        /\ (next = "FINISH" => (node = END /\ status = "done" /\ last = "Supervisor"))

C5_Witness ==
    /\ graph = "supervisor" /\ node = END /\ next = "FINISH"
    /\ executed["Coder"] >= 1

\* C6: in Plan-and-Execute the planner runs at most once, every execute step
\* comes after that one planner step, and the plan changes only in the
\* planner's single step or in replan.
C6_PlanOnceThenReplan ==
    [][graph = "plan_and_execute" =>
         /\ executed'["planner"] <= 1
         /\ (last' = "execute" /\ step' > step => executed["planner"] = 1)
         /\ (plan' # plan =>
               \/ (last' = "replan" /\ step' > step)
               \/ (last' = "planner" /\ step' > step /\ executed["planner"] = 0))]_vars

C6_Witness ==
    /\ graph = "plan_and_execute" /\ last = "replan" /\ node = "execute"
    /\ executed["execute"] >= 2
    /\ plan # <<>>

\* C7 (as claimed): in CRAG web search is used when all retrieved documents
\* fail the relevance grade or when the evaluator is not confident (it
\* answers neither "yes" nor "no" for some document).
C7_AllFail == \A i \in DOMAIN grades : grades[i] # "yes"
C7_NotConfident == \E i \in DOMAIN grades : grades[i] \notin {"yes", "no"}

C7_WebSearchWhenNotConfident ==
    (graph = "crag" /\ last = "grade_documents" /\ (C7_AllFail \/ C7_NotConfident))
        => (web_search = "Yes" /\ node = "rewrite_query")

\* C8 (as claimed): for a very simple question Adaptive RAG generates the
\* answer without retrieval: generate runs with neither retrieve nor
\* web_search having run before it.
C8_VerySimpleWithoutRetrieval ==
    (graph = "adaptive_rag" /\ complexity = "very simple" /\ executed["generate"] >= 1)
        => (executed["retrieve"] = 0 /\ executed["web_search"] = 0)

\* C9: the group chat is over as soon as the latest message is the
\* ArtDirector's and contains "approved" in any letter case; a CopyWriter
\* message, also one containing "approved", leaves the chat running.
C9_LatestMessage == history[Len(history)]
C9_ContainsApproved(content) == str_in(APPROVED, lower(content))

C9_ReviewerApprovalEndsChat ==
    (graph = "group_chat" /\ Len(history) > 1) =>
        /\ (C9_LatestMessage.name = "ArtDirector"
             /\ C9_ContainsApproved(C9_LatestMessage.content))
              => (is_complete /\ status = "done")
        /\ C9_LatestMessage.name = "CopyWriter"
              => (~is_complete /\ status = "running")

C9_Witness ==
    /\ graph = "group_chat" /\ Len(history) = 5
    /\ C9_ContainsApproved(history[4].content)
    /\ C9_LatestMessage.name = "ArtDirector"
    /\ C9_LatestMessage.content[4] = "A"
    /\ is_complete

\* C10: every CRAG run reaches END, with retrieve, grade_documents and
\* generate run exactly once each and rewrite_query and web_search_node at
\* most once each; no node ever runs twice and the recursion limit is never hit.
C10_CragNodes == {"retrieve", "grade_documents", "generate", "rewrite_query",
                  "web_search_node"}

C10_CragTerminates ==
    (graph = "crag") =>
        /\ <>(/\ node = END /\ status = "done"
              /\ executed["retrieve"] = 1
              /\ executed["grade_documents"] = 1
              /\ executed["generate"] = 1
              /\ executed["rewrite_query"] <= 1
              /\ executed["web_search_node"] <= 1)
        /\ [](/\ \A n \in C10_CragNodes : executed[n] <= 1
              /\ status # "GraphRecursionError")

C10_Witness ==
    /\ graph = "crag" /\ node = END
    /\ executed["web_search_node"] = 1 /\ executed["rewrite_query"] = 1
    /\ executed["generate"] = 1

\* C11: a Self-RAG run (recursion_limit = 10) that has taken 10 graph steps
\* without reaching END is stopped with GraphRecursionError: its only next
\* step is the stop, which runs no node, and the cell's except clause prints
\* the error. No Self-RAG run takes more than 10 steps, and the exception
\* never leaves the cell.
C11_SelfRag == {"self_rag", "self_rag_sdk"}

C11_RecursionErrorCaught ==
    /\ []((graph \in C11_SelfRag) =>
            /\ step <= RECURSION_LIMIT
            /\ cell # "raised"
            /\ (status = "GraphRecursionError" => cell = "printed"))
    /\ [][(/\ graph \in C11_SelfRag
            /\ status = "running" /\ node # END
            /\ step >= RECURSION_LIMIT) =>
              (/\ status' = "GraphRecursionError"
               /\ cell' = "printed"
               /\ step' = step /\ executed' = executed)]_vars
    /\ [][(graph \in C11_SelfRag /\ status = "GraphRecursionError") =>
              UNCHANGED vars]_vars

C11_Witness ==
    /\ graph \in C11_SelfRag
    /\ status = "GraphRecursionError" /\ cell = "printed"
    /\ step = RECURSION_LIMIT /\ node = "generate"

\* C12: in both Self-RAG graphs, every execution of generate finds a
\* non-empty `documents`, and each document in it was passed to the grader by
\* the last grade_documents together with the question now in state, and was
\* graded "yes".
C12_GradedYes(doc) ==
    [question |-> question, document |-> doc] \in graded

C13_ExecuteNeverOnEmptyPlan ==
    (graph = "plan_and_execute") =>
        /\ ((node = "execute" /\ status = "running") => plan # <<>>)
        /\ status # "IndexError"
====
